---- MODULE Spec2Model ----
(***************************************************************************)
(* A model of quartodoc's command line entry point                         *)
(* (src/quartodoc/__main__.py): the `build` command with its --watch       *)
(* session, the file-change handler and its debounce test is_diff, and     *)
(* the chdir scope.                                                        *)
(*                                                                         *)
(* Time is counted in ticks of 0.05 s, so the 0.25 s threshold of is_diff  *)
(* is 5 ticks, 0.1 s is 2 ticks and the sentinel mtime -1 is -20 ticks.    *)
(*                                                                         *)
(* Three execution contexts take part in a watch session:                  *)
(*   main      the thread that runs build(): chdir scope, observer set-up, *)
(*             the sleep loop, and observer.stop()/observer.join();        *)
(*   observer  the watchdog Observer thread: it takes one entry at a time  *)
(*             from the event queue and calls the handler under the        *)
(*             observer's lock; an exception leaving the handler ends the  *)
(*             thread (its run loop catches queue.Empty only);             *)
(*   emitter   the watchdog emitter thread: it reads filesystem            *)
(*             notifications and puts them on the event queue with a       *)
(*             blocking put, so with maxsize = 1 it waits while the queue  *)
(*             is full.                                                    *)
(* The environment writes, creates and deletes files of the watched tree.  *)
(***************************************************************************)
EXTENDS Integers, Sequences, FiniteSets, TLC

\* ---------------------------------------------------------------- bounds
\* the latest modification time, in ticks
MaxTime == 6
\* the largest file size
MaxSize == 2
\* environment operations (write, create, delete) in a session of Spec
MaxWrites == 2
\* same-size rewrites of one file in a session of SpecBurst
MaxBurst == 3
\* sources of the `interlinks.sources` mapping
MaxSources == 3

\* ------------------------------------------------------ program constants
\* 0.25 s, in ticks (is_diff)
Threshold == 5
\* the sentinel FileInfo(size=-1, mtime=-1, name="") of a fresh handler
SentinelSize == -1
SentinelMtime == -20
\* observer._event_queue.maxsize = 1
QueueMaxSize == 1

Paths == {"report.py", "util.py"}
Sizes == 1..MaxSize
\* modification times: 0, 0.1 s, the threshold 0.25 s, and beyond the threshold
MTimes == {0, 2, Threshold, MaxTime}
OrigCwd == "orig"
ConfigDir == "cfgdir"
NoEvent == [kind |-> "none", path |-> ""]
StopEntry == [kind |-> "stop", path |-> ""]
NoInfo == [size |-> 0, mtime |-> 0, name |-> "none"]
\* the keys of `interlinks.sources`, in the order of the mapping
KeyNames == << "A", "B", "C", "D", "E" >>
Sources == { KeyNames[i] : i \in 1..MaxSources }
\* the url of a source: the site's own root, or the base URL of another site
SelfUrl == "/"
RemoteUrl == "https://remote/"
CacheNames == {"none", "my_cache"}

VARIABLES
    dry_run, watch, pkgFound,   \* inputs of build(): --dry-run, --watch, importable package
    mpc,                        \* main thread: position in build()
    cwd, prev,                  \* process working directory; chdir's saved `prev`
    interrupted,                \* a KeyboardInterrupt was delivered to the sleep loop
    stopCalls,                  \* number of observer.stop() calls
    stopInCallback,             \* observer.stop() was called while a callback was executing
    stopped,                    \* the observer's stopped event (should_keep_running is its negation)
    lock,                       \* owner of the observer's lock: "none", "main", "observer"
    handlers,                   \* the handler is registered with the observer
    queue,                      \* observer._event_queue
    epc, emitterStopped,        \* emitter thread: position, and its stopped event
    pending,                    \* the event the emitter is putting on the queue
    backlog,                    \* notifications the emitter has not read yet
    wpc,                        \* observer thread: position
    evt,                        \* the event being dispatched
    szRead,                     \* result of the first os.stat (st_size)
    new_file_info,              \* callback_if_diff's local
    old_file_info,              \* self.old_file_info
    crash,                      \* the exception that ended the observer thread
    hist,                       \* the last two events that reached is_diff, oldest first
    fs,                         \* the watched tree: per path exists, size, mtime
    writes,                     \* number of environment operations so far
    arg_old, arg_new, ret,      \* a call of is_diff on its own: arguments and result
    builds,                     \* number of doc_build() invocations (one-shot and callbacks)
    running,                    \* number of rebuild callbacks executing now
    builtFs,                    \* the watched tree as it was when the last callback was invoked
    builtInfo,                  \* the snapshot the last callback was invoked for
    hasInterlinks,              \* interlinks: the config has an `interlinks` key
    cacheTop,                   \* interlinks: the config's top-level `cache` value, or "none"
    cacheNested,                \* interlinks: the config's `interlinks.cache` value, or "none"
    srcUrl,                     \* interlinks: the `url` of each source
    invGiven,                   \* interlinks: the sources give an `inv` file name
    failing,                    \* the sources whose remote inventory cannot be fetched
    lpc,                        \* interlinks(): position
    idx,                        \* interlinks(): index of the next source of the loop
    fetched,                    \* the fetches made so far: source key and URL
    files,                      \* the cache files: path -> content
    notice,                     \* the "No interlinks field found" notice was printed
    run,                        \* which run of interlinks this is
    files1                      \* the cache files as the first run left them

vars == << dry_run, watch, pkgFound, mpc, cwd, prev, interrupted, stopCalls,
           stopInCallback, stopped, lock, handlers, queue, epc, emitterStopped,
           pending, backlog, wpc, evt, szRead, new_file_info, old_file_info,
           crash, hist, fs, writes, arg_old, arg_new, ret,
           builds, running, builtFs, builtInfo,
           hasInterlinks, cacheTop, cacheNested, srcUrl, invGiven, failing,
           lpc, idx, fetched, files, notice, run, files1 >>

mainVars == << dry_run, watch, pkgFound, mpc, cwd, prev, interrupted, stopCalls, stopInCallback >>
observerVars == << wpc, evt, szRead, new_file_info, old_file_info, crash, hist >>
emitterVars == << epc, emitterStopped, pending, backlog >>
envVars == << fs, writes >>
diffVars == << arg_old, arg_new, ret >>
buildVars == << builds, running, builtFs, builtInfo >>
linkCfgVars == << hasInterlinks, cacheTop, cacheNested, srcUrl, invGiven, failing >>
linkVars == << lpc, idx, fetched, files, notice, run, files1 >>

\* ------------------------------------------------------------- FileInfo
FileInfo(size, mtime, name) == [size |-> size, mtime |-> mtime, name |-> name]

InitialFileInfo_RealFile == FileInfo(1, 0, "report.py")

\* QuartoDocFileChangeHandler.__init__: self.old_file_info
InitialFileInfo == FileInfo(SentinelSize, SentinelMtime, "")

is_diff_AtThreshold(old, new) ==
    LET same_nm == old.name = new.name
        diff_sz == old.size # new.size
        diff_tm == (new.mtime - old.mtime) >= Threshold
    IN  (~same_nm) \/ (same_nm /\ (diff_sz \/ diff_tm))

is_diff_NoDebounce(old, new) ==
    LET same_nm == old.name = new.name
        diff_sz == old.size # new.size
        diff_tm == new.mtime # old.mtime
    IN  (~same_nm) \/ (same_nm /\ (diff_sz \/ diff_tm))

is_diff_SizeNeedsTime(old, new) ==
    LET same_nm == old.name = new.name
        diff_sz == old.size # new.size
        diff_tm == (new.mtime - old.mtime) > Threshold
    IN  (~same_nm) \/ (same_nm /\ (diff_sz /\ diff_tm))

is_diff_NameIgnored(old, new) ==
    LET diff_sz == old.size # new.size
        diff_tm == (new.mtime - old.mtime) > Threshold
    IN  diff_sz \/ diff_tm

\* QuartoDocFileChangeHandler.is_diff
is_diff(old, new) ==
    LET same_nm == old.name = new.name
        diff_sz == old.size # new.size
        diff_tm == (new.mtime - old.mtime) > Threshold
    IN  (~same_nm) \/ (same_nm /\ (diff_sz \/ diff_tm))

\* FileInfo values a stat of a watched file can give, and the sentinel
RealInfos == { FileInfo(s, t, p) : s \in Sizes, t \in MTimes, p \in Paths }
AllInfos == RealInfos \cup {InitialFileInfo}

\* ----------------------------------------------------------------- chdir
chdir_exit_NoFinally(exc) == IF exc THEN cwd ELSE prev

\* chdir: the `finally: os.chdir(prev)` of the context manager; `exc` tells
\* whether the body left by an exception. The result is the directory the
\* process is in once the scope is left.
chdir_exit(exc) == prev

\* --------------------------------------------------------- interlinks()
\* `cache = cfg.get("cache", "_inv")`: the top-level key of the configuration
cache == IF cacheTop = "none" THEN "_inv" ELSE cacheTop

\* `if v["url"] == "/": continue`
IsSelf_Never(k) == FALSE

IsSelf(k) == srcUrl[k] = SelfUrl

\* `url = v["url"] + v.get("inv", "objects.inv")`
url(k) == << srcUrl[k], IF invGiven THEN "custom.inv" ELSE "objects.inv" >>

\* `soi.Inventory(url=url)`: the inventory the remote site publishes at u;
\* the remote data does not change between the runs
Inventory(k, u) == [site |-> k, from |-> u]

\* convert_inventory(inv, p_dst): the content of the cache file, a mapping
\* from symbol name to URL that depends on the inventory alone
convert_inventory(inv) == [format |-> "json", symbols |-> inv]

\* `p_dst = p_root / cache / f"{k}_objects.json"`, p_root the config's directory
p_dst_Stamped(k) == << ConfigDir, cache, k, "_objects.json", run >>

p_dst(k) == << ConfigDir, cache, k, "_objects.json" >>

\* ------------------------------------------------------------------ Init
InitialFs ==
    [p \in Paths |-> IF p = "report.py"
                     THEN [exists |-> TRUE, size |-> 1, mtime |-> 0]
                     ELSE [exists |-> FALSE, size |-> 0, mtime |-> 0]]

InitCommon ==
    /\ mpc = "start"
    /\ cwd = OrigCwd
    /\ prev = OrigCwd
    /\ interrupted = FALSE
    /\ stopCalls = 0
    /\ stopInCallback = FALSE
    /\ stopped = FALSE
    /\ lock = "none"
    /\ handlers = FALSE
    /\ queue = << >>
    /\ epc = "off"
    /\ emitterStopped = FALSE
    /\ pending = NoEvent
    /\ backlog = << >>
    /\ wpc = "off"
    /\ evt = NoEvent
    /\ szRead = 0
    /\ new_file_info = NoInfo
    /\ old_file_info = NoInfo
    /\ crash = "none"
    /\ hist = << >>
    /\ fs = InitialFs
    /\ writes = 0
    /\ builds = 0
    /\ running = 0
    /\ builtFs = InitialFs
    /\ builtInfo = NoInfo

\* the interlinks command is not run
InitLinksOff ==
    /\ hasInterlinks = FALSE
    /\ cacheTop = "none"
    /\ cacheNested = "none"
    /\ srcUrl = [k \in Sources |-> SelfUrl]
    /\ invGiven = FALSE
    /\ failing = {}
    /\ lpc = "off"
    /\ idx = 1
    /\ fetched = {}
    /\ files = {}
    /\ notice = FALSE
    /\ run = 1
    /\ files1 = {}

Init ==
    /\ dry_run \in BOOLEAN
    /\ watch \in BOOLEAN
    /\ pkgFound \in BOOLEAN
    /\ InitCommon
    /\ InitLinksOff
    /\ arg_old = NoInfo
    /\ arg_new = NoInfo
    /\ ret = "none"

\* ------------------------------------------------------- main: build()
\* `if dry_run: pass`
MainDryRun ==
    /\ mpc = "start"
    /\ dry_run
    /\ mpc' = "done"
    /\ UNCHANGED << dry_run, watch, pkgFound, cwd, prev, interrupted, stopCalls, stopInCallback >>
    /\ UNCHANGED << stopped, lock, handlers, queue >>
    /\ UNCHANGED << observerVars, emitterVars, envVars, diffVars, buildVars, linkCfgVars, linkVars >>

MainEnterChdir_IgnoresDryRun ==
    /\ mpc = "start"
    /\ prev' = cwd
    /\ cwd' = ConfigDir
    /\ mpc' = IF watch THEN "get_pkg" ELSE "one_shot"
    /\ UNCHANGED << dry_run, watch, pkgFound, interrupted, stopCalls, stopInCallback >>
    /\ UNCHANGED << stopped, lock, handlers, queue >>
    /\ UNCHANGED << observerVars, emitterVars, envVars, diffVars, buildVars, linkCfgVars, linkVars >>

\* `with chdir(Path(config).parent):` -- prev = os.getcwd(); os.chdir(new_dir)
MainEnterChdir ==
    /\ mpc = "start"
    /\ ~dry_run
    /\ prev' = cwd
    /\ cwd' = ConfigDir
    /\ mpc' = IF watch THEN "get_pkg" ELSE "one_shot"
    /\ UNCHANGED << dry_run, watch, pkgFound, interrupted, stopCalls, stopInCallback >>
    /\ UNCHANGED << stopped, lock, handlers, queue >>
    /\ UNCHANGED << observerVars, emitterVars, envVars, diffVars, buildVars, linkCfgVars, linkVars >>

\* one-shot `doc_build()` returns; the scope is left normally
MainOneShotReturn ==
    /\ mpc = "one_shot"
    /\ cwd' = chdir_exit(FALSE)
    /\ mpc' = "done"
    /\ UNCHANGED << dry_run, watch, pkgFound, prev, interrupted, stopCalls, stopInCallback >>
    /\ UNCHANGED << stopped, lock, handlers, queue >>
    /\ builds' = builds + 1
    /\ UNCHANGED << running, builtFs, builtInfo >>
    /\ UNCHANGED << observerVars, emitterVars, envVars, diffVars, linkCfgVars, linkVars >>

\* one-shot `doc_build()` raises; the exception leaves the scope
MainOneShotRaise ==
    /\ mpc = "one_shot"
    /\ cwd' = chdir_exit(TRUE)
    /\ mpc' = "raised"
    /\ UNCHANGED << dry_run, watch, pkgFound, prev, interrupted, stopCalls, stopInCallback >>
    /\ UNCHANGED << stopped, lock, handlers, queue >>
    /\ builds' = builds + 1
    /\ UNCHANGED << running, builtFs, builtInfo >>
    /\ UNCHANGED << observerVars, emitterVars, envVars, diffVars, linkCfgVars, linkVars >>

\* get_package_path raises ModuleNotFoundError; the exception leaves the scope
MainGetPackagePathFail ==
    /\ mpc = "get_pkg"
    /\ ~pkgFound
    /\ cwd' = chdir_exit(TRUE)
    /\ mpc' = "raised"
    /\ UNCHANGED << dry_run, watch, pkgFound, prev, interrupted, stopCalls, stopInCallback >>
    /\ UNCHANGED << stopped, lock, handlers, queue >>
    /\ UNCHANGED << observerVars, emitterVars, envVars, diffVars, buildVars, linkCfgVars, linkVars >>

MainStartObserver_Unchecked ==
    /\ mpc = "get_pkg"
    /\ handlers' = TRUE
    /\ old_file_info' = InitialFileInfo
    /\ epc' = "run"
    /\ wpc' = "check"
    /\ mpc' = "sleep"
    /\ UNCHANGED << dry_run, watch, pkgFound, cwd, prev, interrupted, stopCalls, stopInCallback >>
    /\ UNCHANGED << stopped, lock, queue >>
    /\ UNCHANGED << evt, szRead, new_file_info, crash, hist >>
    /\ UNCHANGED << emitterStopped, pending, backlog >>
    /\ UNCHANGED << envVars, diffVars, buildVars, linkCfgVars, linkVars >>

\* Observer(); maxsize = 1; QuartoDocFileChangeHandler(callback=doc_build);
\* observer.schedule(...); observer.start(): the emitter and the observer
\* threads run from here on, and main enters the sleep loop
MainStartObserver ==
    /\ mpc = "get_pkg"
    /\ pkgFound
    /\ handlers' = TRUE
    /\ old_file_info' = InitialFileInfo
    /\ epc' = "run"
    /\ wpc' = "check"
    /\ mpc' = "sleep"
    /\ UNCHANGED << dry_run, watch, pkgFound, cwd, prev, interrupted, stopCalls, stopInCallback >>
    /\ UNCHANGED << stopped, lock, queue >>
    /\ UNCHANGED << evt, szRead, new_file_info, crash, hist >>
    /\ UNCHANGED << emitterStopped, pending, backlog >>
    /\ UNCHANGED << envVars, diffVars, buildVars, linkCfgVars, linkVars >>

\* KeyboardInterrupt in `while True: time.sleep(1)`; `except: pass`, on to `finally`
MainInterrupt ==
    /\ mpc = "sleep"
    /\ interrupted' = TRUE
    /\ mpc' = "stop"
    /\ UNCHANGED << dry_run, watch, pkgFound, cwd, prev, stopCalls, stopInCallback >>
    /\ UNCHANGED << stopped, lock, handlers, queue >>
    /\ UNCHANGED << observerVars, emitterVars, envVars, diffVars, buildVars, linkCfgVars, linkVars >>

\* observer.stop(), first part: the stopped event is set
MainStopSet ==
    /\ mpc = "stop"
    /\ stopped' = TRUE
    /\ stopCalls' = stopCalls + 1
    /\ stopInCallback' = (wpc = "callback")
    /\ mpc' = "stop_lock"
    /\ UNCHANGED << dry_run, watch, pkgFound, cwd, prev, interrupted >>
    /\ UNCHANGED << lock, handlers, queue >>
    /\ UNCHANGED << observerVars, emitterVars, envVars, diffVars, buildVars, linkCfgVars, linkVars >>

\* observer.stop(), second part: unschedule_all under the observer's lock:
\* the handlers are removed and the emitter is told to stop
MainUnschedule ==
    /\ mpc = "stop_lock"
    /\ lock = "none"
    /\ lock' = "main"
    /\ handlers' = FALSE
    /\ emitterStopped' = TRUE
    /\ mpc' = "join_emitter"
    /\ UNCHANGED << dry_run, watch, pkgFound, cwd, prev, interrupted, stopCalls, stopInCallback >>
    /\ UNCHANGED << stopped, queue >>
    /\ UNCHANGED << epc, pending, backlog >>
    /\ UNCHANGED << observerVars, envVars, diffVars, buildVars, linkCfgVars, linkVars >>

\* observer.stop(), third part: the emitter thread is joined, the lock is
\* released, and the stop entry is put on the queue unless it is full
MainJoinEmitter ==
    /\ mpc = "join_emitter"
    /\ epc = "exited"
    /\ lock' = "none"
    /\ queue' = IF Len(queue) < QueueMaxSize THEN Append(queue, StopEntry) ELSE queue
    /\ mpc' = "join"
    /\ UNCHANGED << dry_run, watch, pkgFound, cwd, prev, interrupted, stopCalls, stopInCallback >>
    /\ UNCHANGED << stopped, handlers >>
    /\ UNCHANGED << observerVars, emitterVars, envVars, diffVars, buildVars, linkCfgVars, linkVars >>

ObserverTerminated == wpc \in {"exited", "crashed"}

MainJoin_NoWait ==
    /\ mpc = "join"
    /\ cwd' = chdir_exit(FALSE)
    /\ mpc' = "done"
    /\ UNCHANGED << dry_run, watch, pkgFound, prev, interrupted, stopCalls, stopInCallback >>
    /\ UNCHANGED << stopped, lock, handlers, queue >>
    /\ UNCHANGED << observerVars, emitterVars, envVars, diffVars, buildVars, linkCfgVars, linkVars >>

\* observer.join() returns once the observer thread has ended; the `finally`
\* block and the chdir scope are left
MainJoin ==
    /\ mpc = "join"
    /\ ObserverTerminated
    /\ cwd' = chdir_exit(FALSE)
    /\ mpc' = "done"
    /\ UNCHANGED << dry_run, watch, pkgFound, prev, interrupted, stopCalls, stopInCallback >>
    /\ UNCHANGED << stopped, lock, handlers, queue >>
    /\ UNCHANGED << observerVars, emitterVars, envVars, diffVars, buildVars, linkCfgVars, linkVars >>

MainStep ==
    \/ MainDryRun
    \/ MainEnterChdir
    \/ MainOneShotReturn
    \/ MainOneShotRaise
    \/ MainGetPackagePathFail
    \/ MainStartObserver
    \/ MainInterrupt
    \/ MainStopSet
    \/ MainUnschedule
    \/ MainJoinEmitter
    \/ MainJoin

\* -------------------------------------------- observer thread (dispatcher)
\* run(): `while self.should_keep_running():`
ObsCheck ==
    /\ wpc = "check"
    /\ wpc' = IF stopped THEN "exited" ELSE "get"
    /\ UNCHANGED << evt, szRead, new_file_info, old_file_info, crash, hist >>
    /\ UNCHANGED << stopped, lock, handlers, queue >>
    /\ UNCHANGED << mainVars, emitterVars, envVars, diffVars, buildVars, linkCfgVars, linkVars >>

\* dispatch_events: event_queue.get(block=True); the stop entry only wakes the loop
ObsGet ==
    /\ wpc = "get"
    /\ queue # << >>
    /\ queue' = Tail(queue)
    /\ IF Head(queue) = StopEntry
       THEN /\ wpc' = "check"
            /\ evt' = evt
       ELSE /\ wpc' = "lockwait"
            /\ evt' = Head(queue)
    /\ UNCHANGED << szRead, new_file_info, old_file_info, crash, hist >>
    /\ UNCHANGED << stopped, lock, handlers >>
    /\ UNCHANGED << mainVars, emitterVars, envVars, diffVars, buildVars, linkCfgVars, linkVars >>

\* the handler's on_modified / on_created are the only methods overridden
Handled(e) == e.kind \in {"modified", "created"}

\* dispatch_events: `with self._lock:` and PatternMatchingEventHandler.dispatch;
\* a removed handler, or an event kind the handler does not override, is a no-op
ObsDispatch ==
    /\ wpc = "lockwait"
    /\ lock = "none"
    /\ IF handlers /\ Handled(evt)
       THEN /\ lock' = "observer"
            /\ wpc' = "stat_size"
            /\ evt' = evt
       ELSE /\ lock' = "none"
            /\ wpc' = "check"
            /\ evt' = NoEvent
    /\ UNCHANGED << szRead, new_file_info, old_file_info, crash, hist >>
    /\ UNCHANGED << stopped, handlers, queue >>
    /\ UNCHANGED << mainVars, emitterVars, envVars, diffVars, buildVars, linkCfgVars, linkVars >>

\* get_file_info: size=os.stat(path).st_size; FileNotFoundError leaves the
\* handler and ends the thread
ObsStatSize ==
    /\ wpc = "stat_size"
    /\ IF fs[evt.path].exists
       THEN /\ szRead' = fs[evt.path].size
            /\ wpc' = "stat_mtime"
            /\ UNCHANGED << lock, crash, evt >>
       ELSE /\ crash' = "FileNotFoundError"
            /\ wpc' = "crashed"
            /\ lock' = "none"
            /\ evt' = NoEvent
            /\ szRead' = 0
    /\ UNCHANGED << new_file_info, old_file_info, hist >>
    /\ UNCHANGED << stopped, handlers, queue >>
    /\ UNCHANGED << mainVars, emitterVars, envVars, diffVars, buildVars, linkCfgVars, linkVars >>

\* the record of an event that reached is_diff: its snapshot, its kind, whether
\* the callback was invoked for it, and whether it was the session's first
Record(h, r) == (IF Len(h) = 2 THEN Tail(h) ELSE h) \o << r >>

ObsStatMtime_Async ==
    /\ wpc = "stat_mtime"
    /\ IF fs[evt.path].exists
       THEN LET new == FileInfo(szRead, fs[evt.path].mtime, evt.path)
                d == is_diff(old_file_info, new)
            IN  /\ hist' = Record(hist, [info |-> new, kind |-> evt.kind, invoked |-> d, first |-> (hist = << >>)])
                /\ szRead' = 0
                /\ crash' = crash
                /\ IF d
                   THEN /\ wpc' = "check"
                        /\ old_file_info' = new
                        /\ new_file_info' = NoInfo
                        /\ lock' = "none"
                        /\ evt' = NoEvent
                        /\ builds' = builds + 1
                        /\ running' = running + 1
                        /\ builtFs' = fs
                        /\ builtInfo' = new
                   ELSE /\ wpc' = "check"
                        /\ old_file_info' = new
                        /\ new_file_info' = NoInfo
                        /\ lock' = "none"
                        /\ evt' = NoEvent
                        /\ UNCHANGED buildVars
       ELSE /\ crash' = "FileNotFoundError"
            /\ wpc' = "crashed"
            /\ lock' = "none"
            /\ evt' = NoEvent
            /\ szRead' = 0
            /\ UNCHANGED << new_file_info, old_file_info, hist >>
            /\ UNCHANGED buildVars
    /\ UNCHANGED << stopped, handlers, queue >>
    /\ UNCHANGED << mainVars, emitterVars, envVars, diffVars, linkCfgVars, linkVars >>

\* what callback_if_diff does with the snapshot once both stats are done:
\* is_diff, then either the callback is entered or old_file_info is overwritten
ObsStatMtime ==
    /\ wpc = "stat_mtime"
    /\ IF fs[evt.path].exists
       THEN LET new == FileInfo(szRead, fs[evt.path].mtime, evt.path)
                d == is_diff(old_file_info, new)
            IN  /\ hist' = Record(hist, [info |-> new, kind |-> evt.kind, invoked |-> d, first |-> (hist = << >>)])
                /\ szRead' = 0
                /\ crash' = crash
                /\ IF d
                   THEN /\ wpc' = "callback"
                        /\ new_file_info' = new
                        /\ builds' = builds + 1
                        /\ running' = running + 1
                        /\ builtFs' = fs
                        /\ builtInfo' = new
                        /\ UNCHANGED << old_file_info, lock, evt >>
                   ELSE /\ wpc' = "check"
                        /\ old_file_info' = new
                        /\ new_file_info' = NoInfo
                        /\ lock' = "none"
                        /\ evt' = NoEvent
                        /\ UNCHANGED buildVars
       ELSE /\ crash' = "FileNotFoundError"
            /\ wpc' = "crashed"
            /\ lock' = "none"
            /\ evt' = NoEvent
            /\ szRead' = 0
            /\ UNCHANGED << new_file_info, old_file_info, hist >>
            /\ UNCHANGED buildVars
    /\ UNCHANGED << stopped, handlers, queue >>
    /\ UNCHANGED << mainVars, emitterVars, envVars, diffVars, linkCfgVars, linkVars >>

\* self.callback() returns; print_event; self.old_file_info = new_file_info
ObsCallbackReturn ==
    /\ wpc = "callback"
    /\ old_file_info' = new_file_info
    /\ new_file_info' = NoInfo
    /\ evt' = NoEvent
    /\ lock' = "none"
    /\ wpc' = "check"
    /\ UNCHANGED << szRead, crash, hist >>
    /\ UNCHANGED << stopped, handlers, queue >>
    /\ running' = running - 1
    /\ UNCHANGED << builds, builtFs, builtInfo >>
    /\ UNCHANGED << mainVars, emitterVars, envVars, diffVars, linkCfgVars, linkVars >>

\* self.callback() raises: nothing in callback_if_diff, on_modified/on_created
\* or the observer's run loop catches it, so the thread ends
ObsCallbackRaise ==
    /\ wpc = "callback"
    /\ crash' = "PipelineError"
    /\ new_file_info' = NoInfo
    /\ evt' = NoEvent
    /\ lock' = "none"
    /\ wpc' = "crashed"
    /\ UNCHANGED << szRead, old_file_info, hist >>
    /\ UNCHANGED << stopped, handlers, queue >>
    /\ running' = running - 1
    /\ UNCHANGED << builds, builtFs, builtInfo >>
    /\ UNCHANGED << mainVars, emitterVars, envVars, diffVars, linkCfgVars, linkVars >>

ObserverStep ==
    \/ ObsCheck
    \/ ObsGet
    \/ ObsDispatch
    \/ ObsStatSize
    \/ ObsStatMtime
    \/ ObsCallbackReturn
    \/ ObsCallbackRaise

\* ----------------------------------------------------------- emitter thread
\* queue_events: the next notification is read
EmitRead ==
    /\ epc = "run"
    /\ ~emitterStopped
    /\ pending = NoEvent
    /\ backlog # << >>
    /\ pending' = Head(backlog)
    /\ backlog' = Tail(backlog)
    /\ UNCHANGED << epc, emitterStopped >>
    /\ UNCHANGED << stopped, lock, handlers, queue >>
    /\ UNCHANGED << mainVars, observerVars, envVars, diffVars, buildVars, linkCfgVars, linkVars >>

\* queue_event: self._event_queue.put(...), which blocks while the queue is
\* at maxsize
EmitPut ==
    /\ epc = "run"
    /\ pending # NoEvent
    /\ Len(queue) < QueueMaxSize
    /\ queue' = Append(queue, pending)
    /\ pending' = NoEvent
    /\ UNCHANGED << epc, emitterStopped, backlog >>
    /\ UNCHANGED << stopped, lock, handlers >>
    /\ UNCHANGED << mainVars, observerVars, envVars, diffVars, buildVars, linkCfgVars, linkVars >>

\* run(): the loop ends once the emitter is stopped and not inside a put
EmitExit ==
    /\ epc = "run"
    /\ emitterStopped
    /\ pending = NoEvent
    /\ epc' = "exited"
    /\ UNCHANGED << emitterStopped, pending, backlog >>
    /\ UNCHANGED << stopped, lock, handlers, queue >>
    /\ UNCHANGED << mainVars, observerVars, envVars, diffVars, buildVars, linkCfgVars, linkVars >>

EmitterStep ==
    \/ EmitRead
    \/ EmitPut
    \/ EmitExit

\* -------------------------------------------------------------- environment
Watching == epc = "run" /\ ~emitterStopped

\* a file of the watched tree is written (created when absent)
EnvWrite ==
    /\ Watching
    /\ writes < MaxWrites
    /\ \E p \in Paths, s \in Sizes, t \in MTimes :
          /\ fs' = [fs EXCEPT ![p] = [exists |-> TRUE, size |-> s, mtime |-> t]]
          /\ backlog' = Append(backlog,
                 [kind |-> IF fs[p].exists THEN "modified" ELSE "created", path |-> p])
    /\ writes' = writes + 1
    /\ UNCHANGED << epc, emitterStopped, pending >>
    /\ UNCHANGED << stopped, lock, handlers, queue >>
    /\ UNCHANGED << mainVars, observerVars, diffVars, buildVars, linkCfgVars, linkVars >>

\* a file of the watched tree is deleted
EnvDelete ==
    /\ Watching
    /\ writes < MaxWrites
    /\ \E p \in Paths :
          /\ fs[p].exists
          /\ fs' = [fs EXCEPT ![p] = [exists |-> FALSE, size |-> 0, mtime |-> 0]]
          /\ backlog' = Append(backlog, [kind |-> "deleted", path |-> p])
    /\ writes' = writes + 1
    /\ UNCHANGED << epc, emitterStopped, pending >>
    /\ UNCHANGED << stopped, lock, handlers, queue >>
    /\ UNCHANGED << mainVars, observerVars, diffVars, buildVars, linkCfgVars, linkVars >>

\* the file report.py is rewritten with its size unchanged (a save that keeps
\* the byte count), at any modification time
EnvTouch ==
    /\ Watching
    /\ writes < MaxBurst
    /\ \E t \in MTimes :
          /\ fs' = [fs EXCEPT !["report.py"].mtime = t]
          /\ backlog' = Append(backlog, [kind |-> "modified", path |-> "report.py"])
    /\ writes' = writes + 1
    /\ UNCHANGED << epc, emitterStopped, pending >>
    /\ UNCHANGED << stopped, lock, handlers, queue >>
    /\ UNCHANGED << mainVars, observerVars, diffVars, buildVars, linkCfgVars, linkVars >>

\* the steps of the program's own threads
ProgramStep ==
    \/ MainStep
    \/ ObserverStep
    \/ EmitterStep

Next ==
    \/ MainDryRun
    \/ MainEnterChdir
    \/ MainOneShotReturn
    \/ MainOneShotRaise
    \/ MainGetPackagePathFail
    \/ MainStartObserver
    \/ MainInterrupt
    \/ MainStopSet
    \/ MainUnschedule
    \/ MainJoinEmitter
    \/ MainJoin
    \/ ObsCheck
    \/ ObsGet
    \/ ObsDispatch
    \/ ObsStatSize
    \/ ObsStatMtime
    \/ ObsCallbackReturn
    \/ ObsCallbackRaise
    \/ EmitRead
    \/ EmitPut
    \/ EmitExit
    \/ EnvWrite
    \/ EnvDelete

Spec == Init /\ [][Next]_vars

\* the same program under a burst of same-size rewrites of report.py
NextBurst ==
    \/ MainDryRun
    \/ MainEnterChdir
    \/ MainOneShotReturn
    \/ MainOneShotRaise
    \/ MainGetPackagePathFail
    \/ MainStartObserver
    \/ MainInterrupt
    \/ MainStopSet
    \/ MainUnschedule
    \/ MainJoinEmitter
    \/ MainJoin
    \/ ObsCheck
    \/ ObsGet
    \/ ObsDispatch
    \/ ObsStatSize
    \/ ObsStatMtime
    \/ ObsCallbackReturn
    \/ ObsCallbackRaise
    \/ EmitRead
    \/ EmitPut
    \/ EmitExit
    \/ EnvTouch

SpecBurst == Init /\ [][NextBurst]_vars

\* ------------------------------------------------ the interlinks command
\* every configuration within the bounds, and every set of unreachable sites
InitLinks ==
    /\ dry_run = FALSE
    /\ watch = FALSE
    /\ pkgFound = FALSE
    /\ InitCommon
    /\ arg_old = NoInfo
    /\ arg_new = NoInfo
    /\ ret = "none"
    /\ hasInterlinks \in BOOLEAN
    /\ cacheTop \in CacheNames
    /\ cacheNested \in CacheNames
    /\ srcUrl \in [Sources -> {SelfUrl, RemoteUrl}]
    /\ invGiven \in BOOLEAN
    /\ failing \in SUBSET Sources
    /\ lpc = "start"
    /\ idx = 1
    /\ fetched = {}
    /\ files = {}
    /\ notice = FALSE
    /\ run = 1
    /\ files1 = {}

watchVars == << mainVars, stopped, lock, handlers, queue, observerVars, emitterVars,
                envVars, diffVars, buildVars >>

\* `interlinks = cfg.get("interlinks", None)`, then
\* `if interlinks is None: print("No interlinks field found ..."); return`.
\* Left without that test, the command fails on `interlinks["sources"]`.
LinkStart_NoCheck ==
    /\ lpc = "start"
    /\ lpc' = IF hasInterlinks THEN "loop" ELSE "raised"
    /\ idx' = 1
    /\ UNCHANGED << fetched, files, notice, run, files1 >>
    /\ UNCHANGED << linkCfgVars, watchVars >>

LinkStart ==
    /\ lpc = "start"
    /\ IF hasInterlinks
       THEN /\ lpc' = "loop"
            /\ notice' = notice
       ELSE /\ lpc' = "done"
            /\ notice' = TRUE
    /\ idx' = 1
    /\ UNCHANGED << fetched, files, run, files1 >>
    /\ UNCHANGED << linkCfgVars, watchVars >>

\* one iteration of `for k, v in interlinks["sources"].items()`, a self source
LinkSkip ==
    /\ lpc = "loop"
    /\ idx <= MaxSources
    /\ IsSelf(KeyNames[idx])
    /\ idx' = idx + 1
    /\ UNCHANGED << lpc, fetched, files, notice, run, files1 >>
    /\ UNCHANGED << linkCfgVars, watchVars >>

\* one iteration: fetch, convert, write
LinkFetch ==
    /\ lpc = "loop"
    /\ idx <= MaxSources
    /\ ~IsSelf(KeyNames[idx])
    /\ KeyNames[idx] \notin failing
    /\ LET k == KeyNames[idx]
           inv == Inventory(k, url(k))
       IN  /\ fetched' = fetched \cup {[key |-> k, url |-> url(k)]}
           /\ files' = { f \in files : f.path # p_dst(k) }
                           \cup {[path |-> p_dst(k), content |-> convert_inventory(inv)]}
    /\ idx' = idx + 1
    /\ UNCHANGED << lpc, notice, run, files1 >>
    /\ UNCHANGED << linkCfgVars, watchVars >>

\* one iteration: `soi.Inventory(url=url)` raises and nothing catches it
LinkFetchFail ==
    /\ lpc = "loop"
    /\ idx <= MaxSources
    /\ ~IsSelf(KeyNames[idx])
    /\ KeyNames[idx] \in failing
    /\ fetched' = fetched \cup {[key |-> KeyNames[idx], url |-> url(KeyNames[idx])]}
    /\ lpc' = "raised"
    /\ UNCHANGED << idx, files, notice, run, files1 >>
    /\ UNCHANGED << linkCfgVars, watchVars >>

\* the loop is exhausted: the command returns
LinkReturn ==
    /\ lpc = "loop"
    /\ idx > MaxSources
    /\ lpc' = "done"
    /\ UNCHANGED << idx, fetched, files, notice, run, files1 >>
    /\ UNCHANGED << linkCfgVars, watchVars >>

\* the command is run a second time, same configuration, same remote data
LinkRerun ==
    /\ lpc \in {"done", "raised"}
    /\ run = 1
    /\ run' = 2
    /\ files1' = files
    /\ lpc' = "start"
    /\ idx' = 1
    /\ UNCHANGED << fetched, files, notice >>
    /\ UNCHANGED << linkCfgVars, watchVars >>

NextLinks ==
    \/ LinkStart
    \/ LinkSkip
    \/ LinkFetch
    \/ LinkFetchFail
    \/ LinkReturn
    \/ LinkRerun

SpecLinks == InitLinks /\ [][NextLinks]_vars

\* ------------------------------------------------- is_diff on its own
\* every pair of snapshots within the bounds, the sentinel included
InitDiff ==
    /\ dry_run = FALSE
    /\ watch = FALSE
    /\ pkgFound = FALSE
    /\ InitCommon
    /\ InitLinksOff
    /\ arg_old \in AllInfos
    /\ arg_new \in AllInfos
    /\ ret = "none"

CallIsDiff ==
    /\ ret = "none"
    /\ ret' = IF is_diff(arg_old, arg_new) THEN "true" ELSE "false"
    /\ UNCHANGED << arg_old, arg_new >>
    /\ UNCHANGED << stopped, lock, handlers, queue >>
    /\ UNCHANGED << mainVars, observerVars, emitterVars, envVars, buildVars, linkCfgVars, linkVars >>

NextDiff == CallIsDiff

SpecDiff == InitDiff /\ [][NextDiff]_vars

\* =================================================================== claims
Delta == arg_new.mtime - arg_old.mtime

\* C1: for two snapshots with the same name and the same size whose mtime
\* delta (new - old) is at most 0.25 s -- exactly 0.25 s and negative deltas
\* included -- is_diff returns false.
C1_SameSizeWithinThresholdIsNoChange ==
    (/\ ret # "none"
     /\ arg_old.name = arg_new.name
     /\ arg_old.size = arg_new.size
     /\ Delta <= Threshold) => ret = "false"

C1_Witness ==
    /\ ret = "false"
    /\ arg_old.name = arg_new.name
    /\ arg_old.name \in Paths
    /\ arg_old.size = arg_new.size
    /\ Delta = Threshold

\* C2: for two snapshots with the same name and different sizes is_diff
\* returns true whatever the mtime delta, zero and negative deltas included.
C2_SizeChangeIsChange ==
    (/\ ret # "none"
     /\ arg_old.name = arg_new.name
     /\ arg_old.size # arg_new.size) => ret = "true"

C2_Witness ==
    /\ ret = "true"
    /\ arg_old.name = arg_new.name
    /\ arg_old.size # arg_new.size
    /\ arg_old.size \in Sizes
    /\ Delta = 0

\* C3: for two snapshots with different names is_diff returns true whatever
\* their sizes and mtimes, equal size and equal mtime included.
C3_NameChangeIsChange ==
    (/\ ret # "none"
     /\ arg_old.name # arg_new.name) => ret = "true"

C3_Witness ==
    /\ ret = "true"
    /\ arg_old.name # arg_new.name
    /\ arg_old.name \in Paths
    /\ arg_old.size = arg_new.size
    /\ Delta = 0

\* C4: in a fresh session (old_file_info is the sentinel) the first created or
\* modified event processed for a real file, whatever its size and mtime,
\* is reported as a change: the rebuild callback is invoked for it.
C4_FirstEventInvokesCallback ==
    \A i \in 1..Len(hist) : hist[i].first => hist[i].invoked

C4_Witness ==
    /\ Len(hist) = 1
    /\ hist[1].first
    /\ hist[1].invoked
    /\ hist[1].info = FileInfo(1, 0, "report.py")
    /\ wpc = "callback"

\* two consecutive modify events for report.py whose snapshots have the same
\* size and lie 0.1 s (2 ticks) apart
RapidPair ==
    /\ Len(hist) = 2
    /\ hist[1].kind = "modified"
    /\ hist[2].kind = "modified"
    /\ hist[1].info.name = "report.py"
    /\ hist[2].info.name = "report.py"
    /\ hist[1].info.size = hist[2].info.size
    /\ hist[2].info.mtime - hist[1].info.mtime = 2

Invocations == Cardinality({ i \in 1..Len(hist) : hist[i].invoked })

\* C5 (as claimed): over two modify events for report.py, 0.1 s apart and of
\* the same size, the rebuild callback is invoked exactly once.
C5_ExactlyOneRebuild == RapidPair => Invocations = 1

\* C5 (amended): over two such events the second never invokes the callback,
\* so at most one rebuild is triggered, and exactly one when the first of the
\* two is the first event of a fresh session.
C5_SecondEventCoalesced ==
    RapidPair => /\ ~hist[2].invoked
                 /\ Invocations <= 1
                 /\ hist[1].first => Invocations = 1

C5_Witness ==
    /\ RapidPair
    /\ hist[1].first
    /\ Invocations = 1
    /\ wpc = "check"

\* C6: when the rebuild callback raises while an event is handled, the failure
\* is caught and the session keeps running: the watcher thread is never ended
\* by a failure of the callback.
C6_CallbackFailureIsolated ==
    ~(wpc = "crashed" /\ crash = "PipelineError")

\* C7: when the file of an accepted event is gone before its size/mtime are
\* read, the event is suppressed: no error leaves the handler and the watcher
\* thread keeps running.
C7_DeletedFileSuppressed ==
    ~(wpc = "crashed" /\ crash = "FileNotFoundError")

\* C8: when stop is invoked while a rebuild callback is executing, stop
\* (observer.stop then observer.join) has not returned before the callback has
\* completed, and once it has returned the watcher thread has ended, so that
\* no event is processed afterwards.
C8_StopWaitsForCallback ==
    (mpc = "done" /\ stopInCallback) =>
        /\ ObserverTerminated
        /\ lock = "none"
        /\ new_file_info = NoInfo

C8_Witness ==
    /\ mpc = "done"
    /\ stopInCallback
    /\ wpc = "exited"
    /\ queue # << >>

\* C9: after an interrupt of an active watch session, stop is invoked once,
\* the subscription is released and control returns with the watcher context
\* ended -- also when the interrupt arrives while the queue is full or a
\* callback is running. Stated for the case the claim names, stop invoked
\* while a callback is running and no handler failure: from then on either
\* the teardown is complete (stop was invoked once, the emitter and the
\* watcher thread have ended, build has returned) or some thread of the
\* program can still take a step.
C9_InterruptTearsDown ==
    (interrupted /\ stopInCallback /\ crash = "none") =>
        \/ /\ mpc = "done"
           /\ stopCalls = 1
           /\ epc = "exited"
           /\ ObserverTerminated
        \/ ENABLED ProgramStep

\* C10: the chdir scope of build restores the working directory on every exit
\* path: one-shot build returned or raised, watch session ended by interrupt,
\* watch set-up failed.
C10_CwdRestored ==
    mpc \in {"done", "raised"} => cwd = OrigCwd

C10_Witness ==
    /\ mpc = "done"
    /\ watch
    /\ interrupted
    /\ prev = OrigCwd
    /\ cwd = OrigCwd

\* C16: with --dry-run no document is generated: builder.build is never
\* invoked and no watch session is started, whatever the other options,
\* --watch included.
C16_DryRunBuildsNothing ==
    dry_run => /\ builds = 0
               /\ running = 0
               /\ ~handlers
               /\ epc = "off"
               /\ wpc = "off"
               /\ mpc \in {"start", "done"}

C16_Witness ==
    /\ dry_run
    /\ watch
    /\ pkgFound
    /\ mpc = "done"
    /\ builds = 0

\* C17: when the package to watch cannot be resolved, build --watch fails
\* before any watching starts: no handler is scheduled, neither the emitter
\* nor the observer thread is started, the callback is never invoked, and
\* the error leaves build.
C17_MissingPackageAbortsBeforeWatching ==
    (~dry_run /\ watch /\ ~pkgFound) =>
        /\ ~handlers
        /\ epc = "off"
        /\ wpc = "off"
        /\ builds = 0
        /\ mpc \in {"start", "get_pkg", "raised"}

C17_Witness ==
    /\ ~dry_run
    /\ watch
    /\ ~pkgFound
    /\ mpc = "raised"
    /\ ~handlers

\* C18: after every processed event the stored previous snapshot equals the
\* snapshot computed for that event, whether or not a change was reported and
\* whether or not the callback completed normally.
C18_SnapshotAlwaysOverwritten ==
    (hist # << >> /\ wpc # "callback") => old_file_info = hist[Len(hist)].info

\* every delivered event has been processed and the session is still watching
Quiescent ==
    /\ mpc = "sleep"
    /\ wpc \in {"check", "get"}
    /\ backlog = << >>
    /\ pending = NoEvent
    /\ queue = << >>
    /\ writes > 0
    /\ builds > 0

C20_SingleBuildInFlight == running <= 1

C20_Witness ==
    /\ running = 1
    /\ wpc = "callback"
    /\ mpc = "stop_lock"
    /\ queue # << >>
    /\ builds = 1

\* ------------------------------------------------ claims on interlinks
LinkEnded == lpc \in {"done", "raised"}

\* C11: a source whose url is "/" never triggers a fetch and never has a
\* cache file, wherever it stands among the sources
C11_SelfSourceNeverFetched ==
    /\ \A f \in fetched : f.url[1] # SelfUrl
    /\ \A k \in Sources :
          srcUrl[k] = SelfUrl =>
              /\ \A f \in fetched : f.key # k
              /\ \A f \in files : f.path[3] # k

\* the self source stands second; the first and the third were fetched and written
C11_Witness ==
    /\ lpc = "done"
    /\ srcUrl["B"] = SelfUrl
    /\ srcUrl["A"] = RemoteUrl
    /\ srcUrl["C"] = RemoteUrl
    /\ { f.key : f \in fetched } = {"A", "C"}
    /\ { f.path[3] : f \in files } = {"A", "C"}

\* C12 (as the specification states it): with sources A, B, C of which B
\* cannot be fetched, the command ends with cache files for A and for C
C12_FailureIsolatedPerSource ==
    ( /\ LinkEnded
      /\ hasInterlinks
      /\ srcUrl["A"] = RemoteUrl /\ srcUrl["B"] = RemoteUrl /\ srcUrl["C"] = RemoteUrl
      /\ failing = {"B"} )
    => /\ \E f \in files : f.path[3] = "A"
       /\ \E f \in files : f.path[3] = "C"

\* C13: without an `interlinks` key the command prints the notice, returns
\* normally, fetches nothing and writes no cache file
C13_NoInterlinksKey ==
    ~hasInterlinks =>
        /\ fetched = {}
        /\ files = {}
        /\ lpc # "raised"
        /\ lpc # "loop"
        /\ lpc = "done" => notice

C13_Witness ==
    /\ ~hasInterlinks
    /\ lpc = "done"
    /\ run = 1
    /\ notice
    /\ failing # {}
    /\ \E k \in Sources : srcUrl[k] = RemoteUrl

\* the cache directory the configuration asks for
ExpectedCacheDir == IF cacheNested = "none" THEN "_inv" ELSE cacheNested
ExpectedPath(k) == << ConfigDir, ExpectedCacheDir, k, "_objects.json" >>
FetchedOk == { k \in Sources : \E f \in fetched : f.key = k /\ k \notin failing }

\* C14 (as the specification states it): the cache files are exactly
\* {cache_dir}/{k}_objects.json for the sources fetched successfully, with
\* cache_dir the `interlinks.cache` setting when given and `_inv` otherwise
C14_CachePathFromInterlinksCache ==
    (lpc = "done" /\ hasInterlinks) =>
        { f.path : f \in files } = { ExpectedPath(k) : k \in FetchedOk }

====
